---- MODULE Spec2Model ----
(***************************************************************************)
(* Model of the simulation core of rhusics:                                *)
(*   - SpatialCollisionSystem::run  (collide/ecs/systems/spatial_collision) *)
(*   - LinearSolverSystem::run      (ecs/physics/systems/linear_solver)     *)
(* Real numbers are modelled by bounded integers on one axis.              *)
(***************************************************************************)
EXTENDS Integers, Sequences, FiniteSets, TLC

(* ---------------------------- bounds ----------------------------------- *)
\* number of entities in the collision world
NumEntities == 3

Entity == 1..NumEntities

\* Option<T>: None is the empty sequence, Some(x) the sequence of x alone
None == <<>>

Some(x) == <<x>>

Min(a, b) == IF a < b THEN a ELSE b

Max(a, b) == IF a < b THEN b ELSE a

\* axis-aligned bounds on one axis: <<min, max>>
Bounds == {<<0, 2>>, <<1, 3>>, <<3, 4>>}

(* --------------------------- state ------------------------------------- *)
VARIABLES
    pc,            \* position of the running system in its run()
    narrow,        \* SpatialCollisionSystem.narrow is Some
    broad,         \* SpatialCollisionSystem.broad is Some
    poseStore,     \* entities that have a Pose component (ReadStorage<T>)
    shapeStore,    \* entities that have a CollisionShape component
    dirty,         \* entities whose Pose reports dirty()
    bound,         \* bound stored per id in the tree (= shape.bound())
    contacts,      \* Contacts resource: the contact output buffer
    potentials,    \* local of run(): the candidate pair list
    reindexCount,  \* calls of tree.reindex_values() in the current run
    collideCalls,  \* calls of narrow.collide() in the current run, in order
    leftover,      \* the buffer held contacts when the current run started
    channel,       \* EventChannel<ContactEvent>: events appended so far
    contact_reader,  \* LinearSolverSystem.contact_reader: events read so far
    time,          \* DeltaTime.delta_seconds
    masses,        \* ReadStorage<Mass>: inverse mass per entity
    bodies,        \* ReadStorage<RigidBody>: restitution per entity
    velocities,    \* WriteStorage<Velocity>
    next_velocities,  \* WriteStorage<NextFrame<Velocity>>
    poses,         \* WriteStorage<BodyPose>
    next_poses,    \* WriteStorage<NextFrame<BodyPose>>
    forces,        \* WriteStorage<ForceAccumulator>
    tick,          \* solver runs started so far
    drained,       \* events read by the current solver run
    leftNextV,     \* next_velocities as the previous solver run left them
    leftNextP,     \* next_poses as the previous solver run left them
    forceLog,  \* the accumulators read by each integration so far
    capacity,  \* events the channel's ring buffer retains
    readerOk,  \* contact_reader is a reader of this channel
    diagnostics,  \* lines printed by the current run (line 188)
    lost,  \* unread events the current run's read found overwritten
    resolved,  \* events whose change sets the current run applied
    resolveArgs,  \* the ResolveData pairs the current run passed to linear_resolve_contact
    other_reader,  \* the reader position of a second solver instance
    otherTick,  \* runs of the second solver instance
    resolvedLog,  \* every event the first solver instance has resolved
    otherLog   \* every event the second solver instance has resolved

collideVars == <<narrow, broad, poseStore, shapeStore, dirty, bound, contacts,
                 potentials, reindexCount, collideCalls, leftover>>

solverVars == <<contact_reader, time, masses, bodies, velocities, next_velocities,
                poses, next_poses, forces, tick, drained, leftNextV, leftNextP,
                forceLog,
                capacity,
                readerOk,
                diagnostics,
                lost,
                resolved,
                resolveArgs,
                other_reader,
                otherTick,
                resolvedLog,
                otherLog>>

vars == <<pc, collideVars, channel, solverVars>>

(* ------------------- pure helpers of the orchestrator ------------------ *)
\* Ord on (Entity, Entity): lexicographic
PairLess(p, q) == p[1] < q[1] \/ (p[1] = q[1] /\ p[2] < q[2])

\* slice::binary_search on potentials: <<"Ok", i>> or <<"Err", insertion point>>
RECURSIVE BinarySearch(_, _, _, _)
BinarySearch(s, x, lo, hi) ==
    IF lo >= hi THEN <<"Err", lo>>
    ELSE LET mid == (lo + hi) \div 2 IN
         IF s[mid] = x THEN <<"Ok", mid>>
         ELSE IF PairLess(s[mid], x) THEN BinarySearch(s, x, mid + 1, hi)
         ELSE BinarySearch(s, x, lo, mid)

\* Vec::insert(pos, n), pos is 1-based here
InsertAt(s, pos, n) == SubSeq(s, 1, pos - 1) \o <<n>> \o SubSeq(s, pos, Len(s))

\* mutant: the pair is not canonicalized
CanonicalPair_Unordered(entity, v) == <<entity, v>>

\* the pair formed for a hit, lower-ordered entity first (lines 115-119)
CanonicalPair(entity, v) == IF entity < v THEN <<entity, v>> ELSE <<v, entity>>

\* mutant: the pair is inserted also when the search finds it
InsertHit_NoDedup(pots, entity, v) ==
    IF entity # v
    THEN LET n == CanonicalPair(entity, v)
             r == BinarySearch(pots, n, 1, Len(pots) + 1)
         IN InsertAt(pots, r[2], n)
    ELSE pots

\* lines 114-127: one hit v of the query made for entity
InsertHit(pots, entity, v) ==
    IF entity # v
    THEN LET n == CanonicalPair(entity, v)
             r == BinarySearch(pots, n, 1, Len(pots) + 1)
         IN IF r[1] = "Err" THEN InsertAt(pots, r[2], n) ELSE pots
    ELSE pots

\* Discrete::intersects on two bounds (touching bounds intersect)
Overlap(b1, b2) == b1[1] <= b2[2] /\ b2[1] <= b1[2]

\* tree.query_discrete(b): stored ids whose bound intersects b, in the
\* order the tree holds its values
QueryDiscrete(treeOrder, bnd, b) ==
    SelectSeq(treeOrder, LAMBDA v : Overlap(bnd[v], b))

RECURSIVE InsertHits(_, _, _)
InsertHits(pots, entity, hits) ==
    IF hits = <<>> THEN pots
    ELSE InsertHits(InsertHit(pots, entity, Head(hits)), entity, Tail(hits))

\* (&*entities, &poses, &shapes).join(): entities having both, ascending
Joined(ps, ss) == ps \cap ss

\* mutant: every entity with a pose and a shape queries the tree, dirty or not
RECURSIVE DefaultBroad_IgnoreDirty(_, _, _, _, _, _, _)
DefaultBroad_IgnoreDirty(pots, e, ps, ss, d, bnd, treeOrder) ==
    IF e > NumEntities THEN pots
    ELSE IF e \in Joined(ps, ss)
         THEN DefaultBroad_IgnoreDirty(
                 InsertHits(pots, e, QueryDiscrete(treeOrder, bnd, bnd[e])),
                 e + 1, ps, ss, d, bnd, treeOrder)
         ELSE DefaultBroad_IgnoreDirty(pots, e + 1, ps, ss, d, bnd, treeOrder)

\* lines 108-131: the DBVT based broad phase, entities e..NumEntities still
\* to visit
RECURSIVE DefaultBroad(_, _, _, _, _, _, _)
DefaultBroad(pots, e, ps, ss, d, bnd, treeOrder) ==
    IF e > NumEntities THEN pots
    ELSE IF e \in Joined(ps, ss) /\ e \in d
         THEN DefaultBroad(
                 InsertHits(pots, e, QueryDiscrete(treeOrder, bnd, bnd[e])),
                 e + 1, ps, ss, d, bnd, treeOrder)
         ELSE DefaultBroad(pots, e + 1, ps, ss, d, bnd, treeOrder)

\* all orders in which the tree may hold its values
TreeOrders ==
    {s \in [1..NumEntities -> Entity] : \A i, j \in 1..NumEntities : i # j => s[i] # s[j]}

\* BroadPhase::compute of an injected broad phase: every pair of stored
\* values with intersecting bounds, canonical and deduplicated
RECURSIVE AllPairsFrom(_, _, _)
AllPairsFrom(a, b, bnd) ==
    IF a > NumEntities THEN <<>>
    ELSE IF b > NumEntities THEN AllPairsFrom(a + 1, a + 2, bnd)
    ELSE (IF Overlap(bnd[a], bnd[b]) THEN <<(<<a, b>>)>> ELSE <<>>)
         \o AllPairsFrom(a, b + 1, bnd)

BroadCompute(bnd) == AllPairsFrom(1, 2, bnd)

\* ContactSet::new_single(CollisionStrategy::CollisionOnly, bodies)
NewSingle(l, r) ==
    [bodies |-> <<l, r>>, strategy |-> "CollisionOnly", normal |-> 0, depth |-> 0]

\* NarrowPhase::collide: Some(manifold) iff the shapes truly intersect
\* (bounds that merely touch do not), else None
Collide(l, r, bnd) ==
    LET lo == IF bnd[l][1] > bnd[r][1] THEN bnd[l][1] ELSE bnd[r][1]
        hi == IF bnd[l][2] < bnd[r][2] THEN bnd[l][2] ELSE bnd[r][2]
    IN IF hi > lo
       THEN Some([bodies |-> <<l, r>>, strategy |-> "FullResolution",
                  normal |-> 1, depth |-> hi - lo])
       ELSE None

\* mutant: only the shapes are looked up
HasComponents_ShapesOnly(p, ps, ss) == p[1] \in ss /\ p[2] \in ss

\* lines 137-140: the four unwrap()s succeed for this pair
HasComponents(p, ps, ss) ==
    p[1] \in ss /\ p[2] \in ss /\ p[1] \in ps /\ p[2] \in ps

\* number of leading pairs of pots for which the unwraps succeed
RECURSIVE GoodPrefix(_, _, _)
GoodPrefix(pots, ps, ss) ==
    IF pots = <<>> \/ ~HasComponents(Head(pots), ps, ss) THEN 0
    ELSE 1 + GoodPrefix(Tail(pots), ps, ss)

\* mutant: each contact is pushed at the front of the buffer
RECURSIVE NarrowContacts_Front(_, _, _)
NarrowContacts_Front(pots, k, bnd) ==
    IF k = 0 THEN <<>>
    ELSE Collide(pots[k][1], pots[k][2], bnd) \o NarrowContacts_Front(pots, k - 1, bnd)

\* lines 136-149: contacts pushed for the pairs pots[1..k]
RECURSIVE NarrowContacts(_, _, _)
NarrowContacts(pots, k, bnd) ==
    IF k = 0 THEN <<>>
    ELSE NarrowContacts(pots, k - 1, bnd) \o Collide(pots[k][1], pots[k][2], bnd)

\* mutant: the last candidate is not reported
BroadOnlyContacts_DropLast(pots) ==
    [i \in 1..(Len(pots) - 1) |-> NewSingle(pots[i][1], pots[i][2])]

\* lines 155-160
BroadOnlyContacts(pots) == [i \in 1..Len(pots) |-> NewSingle(pots[i][1], pots[i][2])]

(* ---------------------- pure helpers of the solver --------------------- *)
\* solver runs modelled
MaxTicks == 2

\* events the host appends to the channel
MaxEvents == 2

\* tick durations
DeltaTimes == {1, 2}

\* forces the host accumulates
Forces == {1, 3}

\* entities the host pushes
Pushed == {1}

\* BodyPose::new(position, rotation)
BodyPose(position, rotation) == [position |-> position, rotation |-> rotation]

\* Velocity with linear and angular part
Velocity(linear, angular) == [linear |-> linear, angular |-> angular]

\* ContactEvent: bodies, contact normal and penetration depth
ContactEvent(a, b, normal, depth) ==
    [bodies |-> <<a, b>>, normal |-> normal, depth |-> depth]

\* events the host publishes: contacts of entities 1 and 2, the normal along
\* the axis or against it
HostEvents == {ContactEvent(1, 2, n, 2) : n \in {1, 0 - 1}}

\* mutant: the read returns every event since the reader's position, also
\* those the ring no longer holds
LossyRead_FromCursor(chan, reader, cap) == SubSeq(chan, reader + 1, Len(chan))

\* channel.lossy_read(reader) returning Ok(data): the events appended since
\* the reader's position that the ring of cap entries still holds
LossyRead(chan, reader, cap) ==
    SubSeq(chan, Max(reader, Len(chan) - cap) + 1, Len(chan))

\* unread events the ring has overwritten
Overwritten(chan, reader, cap) == Max(0, (Len(chan) - cap) - reader)

\* mutant: the current pose is preferred to the next frame pose
EffectivePose_CurrentFirst(e, np, ps) == IF ps[e] # None THEN ps[e] ELSE np[e]

\* lines 161-167 / 170-176: ResolveData of one body; the pose is the next
\* frame pose if there is one, else the current pose
EffectivePose(e, np, ps) == IF np[e] # None THEN np[e] ELSE ps[e]

ResolveData(e, nv, np, ps, ms, bs) ==
    [velocity |-> nv[e],
     pose     |-> EffectivePose(e, np, ps)[1],
     mass     |-> ms[e][1],
     material |-> bs[e][1]]

\* lines 165-167: the unwrap()s made for one body succeed
CanResolve(e, np, ps, ms, bs) ==
    EffectivePose(e, np, ps) # None /\ ms[e] # None /\ bs[e] # None

LinearOf(v) == IF v = None THEN 0 ELSE v[1].linear

\* linear_resolve_contact: impulse along the normal from the relative
\* velocity, the combined restitution and the inverse masses, and a
\* positional correction shared by inverse mass; a body with inverse mass 0
\* receives no change.  Result: <<change set of a, change set of b>>.
LinearResolveContact(contact, a, b) ==
    LET total == a.mass + b.mass
        n == contact.normal
        vn == (LinearOf(b.velocity) - LinearOf(a.velocity)) * n
        e == Min(a.material, b.material)
        j == IF total = 0 \/ vn > 0 THEN 0 ELSE (0 - (1 + e) * vn) \div total
        corr == IF total = 0 THEN 0 ELSE contact.depth \div total
    IN << [pose |-> Some(BodyPose(a.pose.position - corr * n * a.mass, a.pose.rotation)),
           velocity |-> IF a.velocity = None THEN None
                        ELSE Some(Velocity(LinearOf(a.velocity) - j * n * a.mass,
                                           a.velocity[1].angular))],
          [pose |-> Some(BodyPose(b.pose.position + corr * n * b.mass, b.pose.rotation)),
           velocity |-> IF b.velocity = None THEN None
                        ELSE Some(Velocity(LinearOf(b.velocity) + j * n * b.mass,
                                           b.velocity[1].angular))] >>

\* mutant: a missing slot is created holding the change
ApplyChange_Create(slots, e, change) ==
    IF change # None THEN [slots EXCEPT ![e] = change] ELSE slots

\* lines 179-186: change_set.apply(slot.get_mut(e)): a slot that exists is
\* overwritten by the change, a missing slot stays missing
ApplyChange(slots, e, change) ==
    IF slots[e] # None /\ change # None THEN [slots EXCEPT ![e] = change] ELSE slots

\* lines 158-186 for one event: <<next_velocities, next_poses>> afterwards
ResolveOne(contact, nv, np, ps, ms, bs) ==
    LET a == contact.bodies[1]
        b == contact.bodies[2]
        cs == LinearResolveContact(contact,
                                   ResolveData(a, nv, np, ps, ms, bs),
                                   ResolveData(b, nv, np, ps, ms, bs))
    IN << ApplyChange(ApplyChange(nv, a, cs[1].velocity), b, cs[2].velocity),
          ApplyChange(ApplyChange(np, a, cs[1].pose), b, cs[2].pose) >>

\* the event can be resolved without a panic
EventOk(contact, np, ps, ms, bs) ==
    /\ CanResolve(contact.bodies[1], np, ps, ms, bs)
    /\ CanResolve(contact.bodies[2], np, ps, ms, bs)

\* mutant: an event whose lookups fail is skipped and the loop goes on
RECURSIVE ResolveAll_Skip(_, _, _, _, _, _)
ResolveAll_Skip(data, nv, np, ps, ms, bs) ==
    IF data = <<>> THEN <<nv, np, FALSE>>
    ELSE IF ~EventOk(Head(data), np, ps, ms, bs)
         THEN ResolveAll_Skip(Tail(data), nv, np, ps, ms, bs)
    ELSE LET r == ResolveOne(Head(data), nv, np, ps, ms, bs)
         IN ResolveAll_Skip(Tail(data), r[1], r[2], ps, ms, bs)

\* lines 157-187: the loop over the drained events; stops at the first event
\* whose lookups panic.  Result: <<next_velocities, next_poses, panicked>>
RECURSIVE ResolveAll(_, _, _, _, _, _)
ResolveAll(data, nv, np, ps, ms, bs) ==
    IF data = <<>> THEN <<nv, np, FALSE>>
    ELSE IF ~EventOk(Head(data), np, ps, ms, bs) THEN <<nv, np, TRUE>>
    ELSE LET r == ResolveOne(Head(data), nv, np, ps, ms, bs)
         IN ResolveAll(Tail(data), r[1], r[2], ps, ms, bs)

\* lines 158-177: the pairs of ResolveData built for the events resolved
RECURSIVE ResolveArgs(_, _, _, _, _, _)
ResolveArgs(data, nv, np, ps, ms, bs) ==
    IF data = <<>> \/ ~EventOk(Head(data), np, ps, ms, bs) THEN <<>>
    ELSE LET r == ResolveOne(Head(data), nv, np, ps, ms, bs)
         IN << << ResolveData(Head(data).bodies[1], nv, np, ps, ms, bs),
                  ResolveData(Head(data).bodies[2], nv, np, ps, ms, bs) >> >>
            \o ResolveArgs(Tail(data), r[1], r[2], ps, ms, bs)

\* number of leading events of data that are resolved before a panic
RECURSIVE ResolvedCount(_, _, _, _, _)
ResolvedCount(data, np, ps, ms, bs) ==
    IF data = <<>> \/ ~EventOk(Head(data), np, ps, ms, bs) THEN 0
    ELSE 1 + ResolvedCount(Tail(data), np, ps, ms, bs)

\* mutant: the next frame value is not copied
UpdateCurrent_Keep(cur, next) == cur

\* lines 131-138: (next, current).join(): the current value of an entity
\* having both is overwritten by the next frame value
UpdateCurrent(cur, next) ==
    [e \in Entity |-> IF next[e] # None /\ cur[e] # None THEN next[e] ELSE cur[e]]

\* mutant: the acceleration is not scaled by the tick duration
IntegrateForces_NoDt(nv, fs, ms, dt) ==
    [e \in Entity |->
        IF nv[e] # None /\ fs[e] # None /\ ms[e] # None
        THEN Some(Velocity(nv[e][1].linear + (fs[e][1] * ms[e][1]),
                           nv[e][1].angular))
        ELSE nv[e]]

\* lines 104-108: force integration into the next frame velocity
IntegrateForces(nv, fs, ms, dt) ==
    [e \in Entity |->
        IF nv[e] # None /\ fs[e] # None /\ ms[e] # None
        THEN Some(Velocity(nv[e][1].linear + (fs[e][1] * ms[e][1]) * dt,
                           nv[e][1].angular))
        ELSE nv[e]]

\* mutant: the force is read but the accumulator is not reset
ConsumeForces_Keep(nv, fs, ms) == fs

\* line 105: force.consume_force() leaves the accumulator at zero
ConsumeForces(nv, fs, ms) ==
    [e \in Entity |->
        IF nv[e] # None /\ fs[e] # None /\ ms[e] # None THEN Some(0) ELSE fs[e]]

\* lines 111-116: the next frame pose from the current pose and the next
\* frame velocity
IntegratePoses(nv, ps, np, dt) ==
    [e \in Entity |->
        IF nv[e] # None /\ ps[e] # None /\ np[e] # None
        THEN Some(BodyPose(ps[e][1].position + nv[e][1].linear * dt,
                           ps[e][1].rotation))
        ELSE np[e]]

\* how an entity is registered with the solver: with every component,
\* immovable, or without one (or two) of the components
Archetypes ==
    {"full", "static", "noMass", "noBody", "noVelocity", "noNextVelocity",
     "noPose", "noNextPose", "noPoses", "noForce"}

\* initial linear velocity of an entity: odd entities move up, even ones down
StartVelocity(e) == IF e % 2 = 1 THEN 1 ELSE 0 - 1

\* the solver's stores when entity x is registered as archetype arch and
\* every other entity is full
SolverWorld(dt, x, arch) ==
    /\ contact_reader = 0
    /\ time = dt
    /\ tick = 0
    /\ drained = <<>>
    /\ masses = [e \in Entity |->
                   IF e = x /\ arch = "noMass" THEN None
                   ELSE IF e = x /\ arch = "static" THEN Some(0) ELSE Some(1)]
    /\ bodies = [e \in Entity |-> IF e = x /\ arch = "noBody" THEN None ELSE Some(1)]
    /\ velocities = [e \in Entity |->
                   IF e = x /\ arch = "noVelocity" THEN None
                   ELSE Some(Velocity(0, e))]
    /\ next_velocities = [e \in Entity |->
                   IF e = x /\ arch = "noNextVelocity" THEN None
                   ELSE Some(Velocity(StartVelocity(e), e))]
    /\ poses = [e \in Entity |->
                   IF e = x /\ arch \in {"noPose", "noPoses"} THEN None
                   ELSE Some(BodyPose(2 * e, e))]
    /\ next_poses = [e \in Entity |->
                   IF e = x /\ arch \in {"noNextPose", "noPoses"} THEN None
                   ELSE Some(BodyPose(2 * e + StartVelocity(e) * dt, e))]
    /\ forces = [e \in Entity |-> IF e = x /\ arch = "noForce" THEN None ELSE Some(0)]
    /\ leftNextV = next_velocities
    /\ leftNextP = next_poses
    /\ otherLog = <<>>
    /\ resolvedLog = <<>>
    /\ otherTick = 0
    /\ other_reader = 0
    /\ resolveArgs = <<>>
    /\ resolved = <<>>
    /\ lost = 0
    /\ diagnostics = 0
    /\ forceLog = <<>>

(* ----------------------- SpatialCollisionSystem ------------------------ *)
\* at most one entity is registered without one of its components
Registrations ==
    {<<Entity, Entity>>}
    \cup {<<Entity \ {e}, Entity>> : e \in Entity}
    \cup {<<Entity, Entity \ {e}>> : e \in Entity}

Init ==
    /\ pc = "idle"
    /\ narrow \in BOOLEAN
    /\ broad \in BOOLEAN
    /\ \E reg \in Registrations : poseStore = reg[1] /\ shapeStore = reg[2]
    /\ dirty \in SUBSET Entity
    /\ bound \in [Entity -> Bounds]
    /\ contacts = <<>>
    /\ potentials = <<>>
    /\ reindexCount = 0
    /\ collideCalls = <<>>
    /\ leftover = FALSE
    /\ channel = <<>>
    /\ capacity = MaxEvents /\ readerOk = TRUE
    /\ SolverWorld(1, 1, "full")

\* the host flags poses dirty / clean after a run
HostMarkDirty ==
    /\ pc = "done"
    /\ \E d \in SUBSET Entity : d # dirty /\ dirty' = d
    /\ pc' = "idle"
    /\ leftover' = FALSE
    /\ UNCHANGED <<narrow, broad, poseStore, shapeStore, bound, contacts,
                   potentials, reindexCount, collideCalls, channel, solverVars>>

\* mutant: the buffer is not cleared
RunClear_NoClear ==
    /\ pc \in {"idle", "done"}
    /\ contacts' = contacts
    /\ potentials' = <<>>
    /\ reindexCount' = 0
    /\ collideCalls' = <<>>
    /\ leftover' = (contacts # <<>>)
    /\ pc' = "broad"
    /\ UNCHANGED <<narrow, broad, poseStore, shapeStore, dirty, bound, channel, solverVars>>

\* line 99: contacts.clear()
RunClear ==
    /\ pc \in {"idle", "done"}
    /\ contacts' = <<>>
    /\ potentials' = <<>>
    /\ reindexCount' = 0
    /\ collideCalls' = <<>>
    /\ leftover' = (contacts # <<>>)
    /\ pc' = "broad"
    /\ UNCHANGED <<narrow, broad, poseStore, shapeStore, dirty, bound, channel, solverVars>>

\* lines 101-103: the injected broad phase computes the candidates
RunBroadInjected ==
    /\ pc = "broad" /\ broad
    /\ potentials' = BroadCompute(bound)
    /\ pc' = "reindex"
    /\ UNCHANGED <<narrow, broad, poseStore, shapeStore, dirty, bound, contacts,
                   reindexCount, collideCalls, leftover, channel, solverVars>>

\* line 104: tree.reindex_values()
RunReindex ==
    /\ pc = "reindex"
    /\ reindexCount' = reindexCount + 1
    /\ pc' = "narrow"
    /\ UNCHANGED <<narrow, broad, poseStore, shapeStore, dirty, bound, contacts,
                   potentials, collideCalls, leftover, channel, solverVars>>

\* mutant: the default broad phase reindexes the tree as well
RunBroadDefault_Reindex ==
    /\ pc = "broad" /\ ~broad
    /\ \E treeOrder \in TreeOrders :
          potentials' = DefaultBroad(<<>>, 1, poseStore, shapeStore, dirty, bound, treeOrder)
    /\ reindexCount' = reindexCount + 1
    /\ pc' = "narrow"
    /\ UNCHANGED <<narrow, broad, poseStore, shapeStore, dirty, bound, contacts,
                   collideCalls, leftover, channel, solverVars>>

\* lines 106-132: the DBVT based broad phase
RunBroadDefault ==
    /\ pc = "broad" /\ ~broad
    /\ \E treeOrder \in TreeOrders :
          potentials' = DefaultBroad(<<>>, 1, poseStore, shapeStore, dirty, bound, treeOrder)
    /\ pc' = "narrow"
    /\ UNCHANGED <<narrow, broad, poseStore, shapeStore, dirty, bound, contacts,
                   reindexCount, collideCalls, leftover, channel, solverVars>>

\* lines 135-150: narrow phase over the candidates; an unwrap() of a missing
\* component panics and ends the run with what was pushed so far
RunNarrow ==
    /\ pc = "narrow" /\ narrow
    /\ LET k == GoodPrefix(potentials, poseStore, shapeStore) IN
         /\ collideCalls' = SubSeq(potentials, 1, k)
         /\ contacts' = contacts \o NarrowContacts(potentials, k, bound)
         /\ pc' = IF k = Len(potentials) THEN "done" ELSE "aborted"
    /\ UNCHANGED <<narrow, broad, poseStore, shapeStore, dirty, bound,
                   potentials, reindexCount, leftover, channel, solverVars>>

\* mutant: each contact is also written to the event channel
RunBroadOnly_Publish ==
    /\ pc = "narrow" /\ ~narrow
    /\ contacts' = contacts \o BroadOnlyContacts(potentials)
    /\ channel' = channel \o BroadOnlyContacts(potentials)
    /\ pc' = "done"
    /\ UNCHANGED <<narrow, broad, poseStore, shapeStore, dirty, bound,
                   potentials, reindexCount, collideCalls, leftover, solverVars>>

\* lines 151-161: no narrow phase, one CollisionOnly contact per candidate
RunBroadOnly ==
    /\ pc = "narrow" /\ ~narrow
    /\ contacts' = contacts \o BroadOnlyContacts(potentials)
    /\ pc' = "done"
    /\ UNCHANGED <<narrow, broad, poseStore, shapeStore, dirty, bound,
                   potentials, reindexCount, collideCalls, leftover, channel, solverVars>>

Next ==
    \/ HostMarkDirty
    \/ RunClear
    \/ RunBroadInjected
    \/ RunReindex
    \/ RunBroadDefault
    \/ RunNarrow
    \/ RunBroadOnly

Spec == Init /\ [][Next]_vars

(* -------------------------- LinearSolverSystem ------------------------- *)
SolverInit ==
    /\ pc = "idle"
    /\ narrow = FALSE /\ broad = FALSE
    /\ poseStore = Entity /\ shapeStore = Entity
    /\ dirty = {}
    /\ bound = [e \in Entity |-> <<0, 2>>]
    /\ contacts = <<>>
    /\ potentials = <<>>
    /\ reindexCount = 0
    /\ collideCalls = <<>>
    /\ leftover = FALSE
    /\ channel = <<>>
    /\ capacity = MaxEvents /\ readerOk = TRUE
    /\ \E dt \in DeltaTimes, x \in Entity, arch \in Archetypes : SolverWorld(dt, x, arch)

\* the host accumulates a force on one entity before a run
HostAddForce ==
    /\ pc \in {"idle", "done"}
    /\ \E e \in Pushed, f \in Forces :
          /\ forces[e] = Some(0)
          /\ forces' = [forces EXCEPT ![e] = Some(forces[e][1] + f)]
    /\ pc' = "idle"
    /\ UNCHANGED <<collideVars, channel, contact_reader, time, masses, bodies,
                   velocities, next_velocities, poses, next_poses, tick, drained,
                   leftNextV, leftNextP,
                   forceLog,
                   capacity,
                   readerOk,
                   diagnostics,
                   lost,
                   resolved,
                   resolveArgs,
                   other_reader,
                   otherTick,
                   resolvedLog,
                   otherLog>>

\* a producer appends a contact event to the channel
HostPublish ==
    /\ pc \in {"idle", "done"}
    /\ Len(channel) < MaxEvents
    /\ \E ev \in HostEvents : channel' = Append(channel, ev)
    /\ pc' = "idle"
    /\ UNCHANGED <<collideVars, solverVars>>

\* lines 66-74: contact_resolution when lossy_read returns Ok(data)
SolverResolve ==
    /\ pc \in {"idle", "done"}
    /\ tick < MaxTicks
    /\ readerOk
    /\ tick' = tick + 1
    /\ diagnostics' = 0
    /\ lost' = Overwritten(channel, contact_reader, capacity)
    /\ LET data == LossyRead(channel, contact_reader, capacity)
           r == ResolveAll(data, next_velocities, next_poses, poses, masses, bodies)
       IN /\ drained' = data
          /\ resolved' = SubSeq(data, 1, ResolvedCount(data, next_poses, poses, masses, bodies))
          /\ resolvedLog' = resolvedLog \o SubSeq(data, 1, ResolvedCount(data, next_poses, poses, masses, bodies))
          /\ resolveArgs' = ResolveArgs(data, next_velocities, next_poses, poses, masses, bodies)
          /\ contact_reader' = Len(channel)
          /\ next_velocities' = r[1]
          /\ next_poses' = r[2]
          /\ pc' = IF r[3] THEN "aborted" ELSE "resolved"
    /\ leftNextV' = next_velocities
    /\ leftNextP' = next_poses
    /\ UNCHANGED <<collideVars, channel, time, masses, bodies, velocities, poses, forces,
                   forceLog,
                   capacity,
                   readerOk,
                   other_reader,
                   otherTick,
                   otherLog>>

\* mutant: promotion copies the next frame values from before this run's
\* contact resolution
SolverPromote_Stale ==
    /\ pc = "resolved"
    /\ poses' = UpdateCurrent(poses, leftNextP)
    /\ velocities' = UpdateCurrent(velocities, leftNextV)
    /\ pc' = "promoted"
    /\ UNCHANGED <<collideVars, channel, contact_reader, time, masses, bodies,
                   next_velocities, next_poses, forces, tick, drained,
                   leftNextV, leftNextP,
                   forceLog,
                   capacity,
                   readerOk,
                   diagnostics,
                   lost,
                   resolved,
                   resolveArgs,
                   other_reader,
                   otherTick,
                   resolvedLog,
                   otherLog>>

\* line 76: update_current_frame
SolverPromote ==
    /\ pc = "resolved"
    /\ poses' = UpdateCurrent(poses, next_poses)
    /\ velocities' = UpdateCurrent(velocities, next_velocities)
    /\ pc' = "promoted"
    /\ UNCHANGED <<collideVars, channel, contact_reader, time, masses, bodies,
                   next_velocities, next_poses, forces, tick, drained,
                   leftNextV, leftNextP,
                   forceLog,
                   capacity,
                   readerOk,
                   diagnostics,
                   lost,
                   resolved,
                   resolveArgs,
                   other_reader,
                   otherTick,
                   resolvedLog,
                   otherLog>>

\* mutant: position integration writes the current pose as well
SolverIntegrate_WriteCurrent ==
    /\ pc = "promoted"
    /\ LET nv == IntegrateForces(next_velocities, forces, masses, time)
       IN /\ next_velocities' = nv
          /\ forces' = ConsumeForces(next_velocities, forces, masses)
          /\ forceLog' = Append(forceLog, forces)
          /\ next_poses' = IntegratePoses(nv, poses, next_poses, time)
          /\ poses' = UpdateCurrent(poses, IntegratePoses(nv, poses, next_poses, time))
    /\ pc' = "done"
    /\ UNCHANGED <<collideVars, channel, contact_reader, time, masses, bodies,
                   velocities, tick, drained, leftNextV, leftNextP,
                   capacity,
                   readerOk,
                   diagnostics,
                   lost,
                   resolved,
                   resolveArgs,
                   other_reader,
                   otherTick,
                   resolvedLog,
                   otherLog>>

\* mutant: the position is integrated with the velocity before force
\* integration
SolverIntegrate_OldVelocity ==
    /\ pc = "promoted"
    /\ LET nv == IntegrateForces(next_velocities, forces, masses, time)
       IN /\ next_velocities' = nv
          /\ forces' = ConsumeForces(next_velocities, forces, masses)
          /\ forceLog' = Append(forceLog, forces)
          /\ next_poses' = IntegratePoses(next_velocities, poses, next_poses, time)
    /\ pc' = "done"
    /\ UNCHANGED <<collideVars, channel, contact_reader, time, masses, bodies,
                   velocities, poses, tick, drained, leftNextV, leftNextP,
                   capacity,
                   readerOk,
                   diagnostics,
                   lost,
                   resolved,
                   resolveArgs,
                   other_reader,
                   otherTick,
                   resolvedLog,
                   otherLog>>

\* lines 78-85: compute_next_frame
SolverIntegrate ==
    /\ pc = "promoted"
    /\ LET nv == IntegrateForces(next_velocities, forces, masses, time)
       IN /\ next_velocities' = nv
          /\ forces' = ConsumeForces(next_velocities, forces, masses)
          /\ forceLog' = Append(forceLog, forces)
          /\ next_poses' = IntegratePoses(nv, poses, next_poses, time)
    /\ pc' = "done"
    /\ UNCHANGED <<collideVars, channel, contact_reader, time, masses, bodies,
                   velocities, poses, tick, drained, leftNextV, leftNextP,
                   capacity,
                   readerOk,
                   diagnostics,
                   lost,
                   resolved,
                   resolveArgs,
                   other_reader,
                   otherTick,
                   resolvedLog,
                   otherLog>>

\* lines 66-74 when lossy_read returns Err: line 188 prints the error and no
\* event is resolved
SolverReadError ==
    /\ pc \in {"idle", "done"}
    /\ tick < MaxTicks
    /\ ~readerOk
    /\ tick' = tick + 1
    /\ diagnostics' = 1
    /\ lost' = 0
    /\ drained' = <<>>
    /\ resolved' = <<>>
    /\ resolveArgs' = <<>>
    /\ leftNextV' = next_velocities
    /\ leftNextP' = next_poses
    /\ pc' = "resolved"
    /\ UNCHANGED <<collideVars, channel, contact_reader, time, masses, bodies,
                   velocities, next_velocities, poses, next_poses, forces,
                   forceLog, capacity, readerOk,
                   other_reader,
                   otherTick,
                   resolvedLog,
                   otherLog>>

SolverNext ==
    \/ HostAddForce
    \/ HostPublish
    \/ SolverResolve
    \/ SolverPromote
    \/ SolverIntegrate

SolverSpec == SolverInit /\ [][SolverNext]_vars

(* ------------------- two solver instances on one channel --------------- *)
TwoSolverInit ==
    /\ pc = "idle"
    /\ narrow = FALSE /\ broad = FALSE
    /\ poseStore = Entity /\ shapeStore = Entity
    /\ dirty = {}
    /\ bound = [e \in Entity |-> <<0, 2>>]
    /\ contacts = <<>>
    /\ potentials = <<>>
    /\ reindexCount = 0
    /\ collideCalls = <<>>
    /\ leftover = FALSE
    /\ channel = <<>>
    /\ capacity = MaxEvents /\ readerOk = TRUE
    /\ \E dt \in DeltaTimes : SolverWorld(dt, 1, "full")

\* mutant: the second instance reads with, and advances, the first
\* instance's reader as well
SecondSolverRun_SharedReader ==
    /\ pc \in {"idle", "done"}
    /\ otherTick < MaxTicks
    /\ otherTick' = otherTick + 1
    /\ LET data == LossyRead(channel, other_reader, capacity)
           r == ResolveAll(data, next_velocities, next_poses, poses, masses, bodies)
           ps == UpdateCurrent(poses, r[2])
           nv == IntegrateForces(r[1], forces, masses, time)
       IN /\ otherLog' = otherLog \o SubSeq(data, 1, ResolvedCount(data, next_poses, poses, masses, bodies))
          /\ other_reader' = Len(channel)
          /\ contact_reader' = Len(channel)
          /\ IF r[3]
             THEN /\ next_velocities' = r[1] /\ next_poses' = r[2]
                  /\ pc' = "aborted"
                  /\ UNCHANGED <<poses, velocities, forces, forceLog>>
             ELSE /\ poses' = ps
                  /\ velocities' = UpdateCurrent(velocities, r[1])
                  /\ next_velocities' = nv
                  /\ forces' = ConsumeForces(r[1], forces, masses)
                  /\ forceLog' = Append(forceLog, forces)
                  /\ next_poses' = IntegratePoses(nv, ps, r[2], time)
                  /\ pc' = "idle"
    /\ UNCHANGED <<collideVars, channel, time, masses, bodies, tick,
                   drained, leftNextV, leftNextP, capacity, readerOk, diagnostics,
                   lost, resolved, resolveArgs, resolvedLog>>

\* lines 53-86 run by a second LinearSolverSystem, which registered its own
\* reader (line 29): contact resolution, promotion and integration
SecondSolverRun ==
    /\ pc \in {"idle", "done"}
    /\ otherTick < MaxTicks
    /\ otherTick' = otherTick + 1
    /\ LET data == LossyRead(channel, other_reader, capacity)
           r == ResolveAll(data, next_velocities, next_poses, poses, masses, bodies)
           ps == UpdateCurrent(poses, r[2])
           nv == IntegrateForces(r[1], forces, masses, time)
       IN /\ otherLog' = otherLog \o SubSeq(data, 1, ResolvedCount(data, next_poses, poses, masses, bodies))
          /\ other_reader' = Len(channel)
          /\ IF r[3]
             THEN /\ next_velocities' = r[1] /\ next_poses' = r[2]
                  /\ pc' = "aborted"
                  /\ UNCHANGED <<poses, velocities, forces, forceLog>>
             ELSE /\ poses' = ps
                  /\ velocities' = UpdateCurrent(velocities, r[1])
                  /\ next_velocities' = nv
                  /\ forces' = ConsumeForces(r[1], forces, masses)
                  /\ forceLog' = Append(forceLog, forces)
                  /\ next_poses' = IntegratePoses(nv, ps, r[2], time)
                  /\ pc' = "idle"
    /\ UNCHANGED <<collideVars, channel, contact_reader, time, masses, bodies, tick,
                   drained, leftNextV, leftNextP, capacity, readerOk, diagnostics,
                   lost, resolved, resolveArgs, resolvedLog>>

TwoSolverNext ==
    \/ HostPublish
    \/ SolverResolve
    \/ SolverPromote
    \/ SolverIntegrate
    \/ SecondSolverRun

TwoSolverSpec == TwoSolverInit /\ [][TwoSolverNext]_vars

(* ------------- the solver on a channel that overwrites events ----------- *)
\* entries the small ring retains
ChannelCap == 1

OverflowInit ==
    /\ pc = "idle"
    /\ narrow = FALSE /\ broad = FALSE
    /\ poseStore = Entity /\ shapeStore = Entity
    /\ dirty = {}
    /\ bound = [e \in Entity |-> <<0, 2>>]
    /\ contacts = <<>>
    /\ potentials = <<>>
    /\ reindexCount = 0
    /\ collideCalls = <<>>
    /\ leftover = FALSE
    /\ channel = <<>>
    /\ capacity = ChannelCap
    /\ readerOk \in BOOLEAN
    /\ \E dt \in DeltaTimes, x \in Entity, arch \in Archetypes : SolverWorld(dt, x, arch)

OverflowNext ==
    \/ SolverNext
    \/ SolverReadError

OverflowSpec == OverflowInit /\ [][OverflowNext]_vars

(* ------------------- claims on SpatialCollisionSystem ------------------ *)
Range(s) == {s[i] : i \in 1..Len(s)}

Occurrences(s, x) == Cardinality({i \in 1..Len(s) : s[i] = x})

AfterBroad == pc \in {"narrow", "done", "aborted"}

\* C1: in default mode the candidate list is strictly ascending and every
\* pair has its lower-ordered entity first (no duplicate, no self-pair).
C1_SortedCanonical ==
    (~broad /\ AfterBroad) =>
        /\ \A i \in 1..Len(potentials) : potentials[i][1] < potentials[i][2]
        /\ \A i \in 1..(Len(potentials) - 1) : PairLess(potentials[i], potentials[i + 1])

C1_Witness ==
    ~broad /\ pc = "done" /\ Len(potentials) >= 3 /\ Cardinality(dirty) >= 2

\* C2: in default mode, when A has Pose and CollisionShape, is dirty and the
\* query on its bound returns B # A, the canonical pair of A and B is in the
\* candidate list exactly once (also when both are dirty).
C2_PairExactlyOnce ==
    (~broad /\ AfterBroad) =>
        \A A, B \in Entity :
            (A # B /\ A \in poseStore /\ A \in shapeStore /\ A \in dirty
             /\ Overlap(bound[B], bound[A]))
            => Occurrences(potentials, <<Min(A, B), Max(A, B)>>) = 1

C2_Witness ==
    /\ ~broad /\ pc = "done"
    /\ \E A, B \in Entity :
          /\ A # B /\ {A, B} \subseteq dirty \cap poseStore \cap shapeStore
          /\ Overlap(bound[A], bound[B])
          /\ Occurrences(potentials, <<Min(A, B), Max(A, B)>>) = 1

\* C3: without a narrow phase the buffer holds one CollisionOnly contact per
\* candidate pair, in candidate order, with no manifold data; two overlapping
\* entities of which one is dirty give exactly one entry.
C3_BroadOnlyOutput ==
    (~narrow /\ pc = "done") =>
        /\ Len(contacts) = Len(potentials)
        /\ \A i \in 1..Len(contacts) :
              /\ contacts[i].bodies = potentials[i]
              /\ contacts[i].strategy = "CollisionOnly"
              /\ contacts[i].normal = 0 /\ contacts[i].depth = 0
        /\ \A A, B \in Entity :
              (/\ ~broad /\ A # B /\ dirty = {A}
               /\ A \in poseStore /\ A \in shapeStore
               /\ \A v \in Entity \ {A} : Overlap(bound[v], bound[A]) <=> v = B)
              => /\ Len(contacts) = 1
                 /\ contacts[1].bodies = <<Min(A, B), Max(A, B)>>

C3_Witness ==
    /\ ~narrow /\ ~broad /\ pc = "done" /\ Len(contacts) = 1
    /\ Cardinality(dirty) = 1
    /\ \E A \in dirty : contacts[1].bodies[1] = A \/ contacts[1].bodies[2] = A

\* the candidate pairs for which collide returns Some, in list order
CollideSome == SelectSeq(potentials, LAMBDA p : Collide(p[1], p[2], bound) # None)

C5_ClearedEachRun ==
    /\ pc \in {"broad", "reindex", "narrow"} => contacts = <<>>
    /\ pc = "done" =>
          Len(contacts) = (IF narrow THEN Len(CollideSome) ELSE Len(potentials))

C5_Witness ==
    pc = "done" /\ leftover /\ contacts = <<>>

\* some candidate pair names an entity without Pose or CollisionShape
BadPair(p) == ~(p[1] \in poseStore \cap shapeStore /\ p[2] \in poseStore \cap shapeStore)

\* C6 as stated: in any run a candidate pair naming an entity that lacks a
\* Pose or a CollisionShape aborts the run, with or without narrow phase.
C6_Original ==
    (pc = "done") => \A i \in 1..Len(potentials) : ~BadPair(potentials[i])

\* C6 amended: with a narrow phase such a pair aborts the run and no contact
\* is emitted for it; without a narrow phase the components are not looked up
\* and the run completes with a CollisionOnly contact for the pair.
C6_Amended ==
    /\ (narrow /\ pc \in {"done", "aborted"}) =>
          /\ (pc = "aborted") <=> (\E i \in 1..Len(potentials) : BadPair(potentials[i]))
          /\ \A i \in 1..Len(contacts) : ~BadPair(contacts[i].bodies)
          /\ \A i \in 1..Len(collideCalls) : ~BadPair(collideCalls[i])
    /\ (~narrow /\ AfterBroad /\ pc # "narrow") =>
          /\ pc = "done"
          /\ \A i \in 1..Len(potentials) : contacts[i].bodies = potentials[i]

C6_Witness ==
    /\ narrow /\ pc = "aborted" /\ ~broad
    /\ \E i \in 1..Len(potentials) : BadPair(potentials[i])

\* C7 as stated: in both modes the index is reindexed exactly once per run,
\* between obtaining the candidates and the narrow phase.
C7_Original ==
    AfterBroad => reindexCount = 1

\* C7 amended: with an injected broad phase the index is reindexed exactly
\* once, after the candidates are computed and before any contact is emitted;
\* in default mode the run does not reindex the index.
C7_Amended ==
    /\ AfterBroad => reindexCount = (IF broad THEN 1 ELSE 0)
    /\ pc = "broad" => reindexCount = 0
    /\ pc = "reindex" =>
          broad /\ reindexCount = 0 /\ contacts = <<>> /\ collideCalls = <<>>

C7_Witness ==
    broad /\ pc = "done" /\ reindexCount = 1 /\ contacts # <<>>

\* C8 as stated: every ContactSet appended to the buffer is also published by
\* the orchestrator as a ContactEvent on the event stream.
C8_Original ==
    (pc = "done") =>
        \A i \in 1..Len(contacts) :
            \E j \in 1..Len(channel) : channel[j].bodies = contacts[i].bodies

\* C8 amended: the orchestrator appends its ContactSets to the contact output
\* buffer only; no step of its run appends to the contact event stream.
C8_Amended ==
    [][channel' = channel]_vars

C8_Witness ==
    pc = "done" /\ contacts # <<>> /\ channel = <<>>

(* --------------------- claims on LinearSolverSystem -------------------- *)
\* entities that are a body of an event read by the current run
DrainedBodies ==
    {drained[i].bodies[1] : i \in 1..Len(drained)} \cup
    {drained[i].bodies[2] : i \in 1..Len(drained)}

\* C9 as stated: after frame promotion the current Pose and Velocity of every
\* entity carrying the next-frame slot equal the next-frame values the
\* previous tick left in those slots.
C9_Original ==
    (pc = "promoted" /\ tick >= 2) =>
        \A e \in Entity :
            /\ (poses[e] # None /\ next_poses[e] # None) => poses[e] = leftNextP[e]
            /\ (velocities[e] # None /\ next_velocities[e] # None)
                  => velocities[e] = leftNextV[e]

\* C9 amended: after frame promotion the current Pose / Velocity of every
\* entity that has both the current component and the next-frame slot equal
\* the value the slot holds at promotion, which is the value the previous
\* tick left as modified by this tick's contact resolution; for an entity
\* that is no body of an event read in this tick it is the value the
\* previous tick left.
C9_Amended ==
    (pc = "promoted") =>
        \A e \in Entity :
            /\ (poses[e] # None /\ next_poses[e] # None) =>
                  /\ poses[e] = next_poses[e]
                  /\ e \notin DrainedBodies => poses[e] = leftNextP[e]
            /\ (velocities[e] # None /\ next_velocities[e] # None) =>
                  /\ velocities[e] = next_velocities[e]
                  /\ e \notin DrainedBodies => velocities[e] = leftNextV[e]

C9_Witness ==
    /\ pc = "promoted" /\ tick = 2 /\ drained # <<>>
    /\ \E e \in DrainedBodies :
          /\ velocities[e] # None /\ velocities[e] = next_velocities[e]
          /\ velocities[e] # leftNextV[e]
    /\ \E e \in Entity \ DrainedBodies :
          /\ poses[e] # None /\ poses[e] = leftNextP[e]

\* C10: a value written into a next-frame slot by contact resolution or by
\* integration reaches the current Pose / Velocity only through a promotion
\* step: no other step changes the current components, and promotion sets
\* them to what the slots hold at that moment; a value written by the
\* integration of tick k is therefore current only from tick k+1 on.
C10_PromotionOnly ==
    [][ /\ (poses' # poses \/ velocities' # velocities)
            => (pc = "resolved" /\ pc' = "promoted")
        /\ (pc = "resolved" /\ pc' = "promoted") =>
            \A e \in Entity :
                /\ (poses[e] # None /\ next_poses[e] # None)
                      => poses'[e] = next_poses[e]
                /\ (velocities[e] # None /\ next_velocities[e] # None)
                      => velocities'[e] = next_velocities[e]
      ]_vars

C10_Witness ==
    /\ pc = "done" /\ tick = 2 /\ drained = <<>>
    /\ \E e \in Entity :
          /\ poses[e] # None /\ next_poses[e] # None
          /\ poses[e] = leftNextP[e]
          /\ next_poses[e] # poses[e]
          /\ velocities[e] # None /\ next_velocities[e] # None
          /\ velocities[e] = leftNextV[e]
          /\ next_velocities[e] # velocities[e]

\* the entity is visited by the force integration join of line 104
InForceJoin(e) == next_velocities[e] # None /\ forces[e] # None /\ masses[e] # None

\* C11 as stated: in every run the ForceAccumulator of every entity that has
\* one is read and reset, so every ForceAccumulator is zero at the end of
\* the run.
C11_Original ==
    (pc = "done") => \A e \in Entity : forces[e] # None => forces[e] = Some(0)

\* C11 amended: in every run the ForceAccumulator of every entity that has
\* one together with a next-frame velocity and a Mass is read for
\* integration and reset to zero by the integration step and by no other
\* step, so it is zero at the end of the run; the accumulator of an entity
\* without next-frame velocity or without Mass is neither read nor reset.
C11_Amended ==
    /\ [](pc = "done" => \A e \in Entity : InForceJoin(e) => forces[e] = Some(0))
    /\ [][ /\ (pc = "promoted" /\ pc' = "done") =>
                \A e \in Entity :
                    IF InForceJoin(e)
                    THEN /\ forces'[e] = Some(0)
                         /\ next_velocities'[e][1].linear - next_velocities[e][1].linear
                               = forces[e][1] * masses[e][1] * time
                    ELSE /\ forces'[e] = forces[e]
                         /\ next_velocities'[e] = next_velocities[e]
           /\ (pc' \in {"resolved", "promoted", "aborted"}) => forces' = forces
         ]_vars

C11_Witness ==
    /\ pc = "done" /\ tick = 2 /\ InForceJoin(1) /\ forces[1] = Some(0)
    /\ masses[1] = Some(1) /\ velocities[1] # None
    /\ next_velocities[1][1].linear - velocities[1][1].linear = 3 * time

\* events the solver has read so far
ReadSoFar == SubSeq(channel, 1, contact_reader)

\* no event read so far names entity e
Untouched(e) ==
    \A i \in 1..Len(ReadSoFar) : e \notin {ReadSoFar[i].bodies[1], ReadSoFar[i].bodies[2]}

\* C12: with next-frame velocity v0, inverse mass 1/m and a ForceAccumulator,
\* the same force F accumulated before each of n runs with the same dt and
\* no contact event involving the entity, the next-frame velocity after the
\* n-th run is v0 + n*(F/m)*dt; with F = 0 it is unchanged.
C12_ConstantForce ==
    (pc = "done") =>
        \A e \in Entity : \A F \in Forces \cup {0} :
            (/\ InForceJoin(e) /\ Untouched(e)
             /\ Len(forceLog) = tick
             /\ \A i \in 1..Len(forceLog) : forceLog[i][e] = Some(F))
            => next_velocities[e][1].linear
                  = StartVelocity(e) + tick * (F * masses[e][1]) * time

C12_Witness ==
    /\ pc = "done" /\ tick = 2 /\ time = 2 /\ InForceJoin(1) /\ Untouched(1)
    /\ masses[1] = Some(1)
    /\ Len(forceLog) = 2
    /\ \A i \in 1..Len(forceLog) : forceLog[i][1] = Some(3)
    /\ next_velocities[1][1].linear = StartVelocity(1) + 12

\* C13: after integration, for every entity with next-frame velocity, current
\* pose and next-frame pose slot, the next-frame position is the current
\* (just promoted) position plus the next-frame velocity as updated by this
\* tick's force integration times dt, and the rotation is the current one.
C13_PositionFromNewVelocity ==
    (pc = "done") =>
        \A e \in Entity :
            (next_velocities[e] # None /\ poses[e] # None /\ next_poses[e] # None) =>
                /\ next_poses[e][1].position
                      = poses[e][1].position + next_velocities[e][1].linear * time
                /\ next_poses[e][1].rotation = poses[e][1].rotation

C13_Witness ==
    /\ pc = "done" /\ InForceJoin(1) /\ masses[1] = Some(1)
    /\ poses[1] # None /\ next_poses[1] # None /\ velocities[1] # None
    /\ Len(forceLog) = tick /\ forceLog[tick][1] = Some(3)
    /\ next_velocities[1][1].linear = velocities[1][1].linear + 3 * time
    /\ next_poses[1][1].position
          = poses[1][1].position + (velocities[1][1].linear + 3 * time) * time

\* the unread events the ring still holds, read off the channel's log
Surviving ==
    LET n == Min(capacity, Len(channel) - contact_reader)
    IN [i \in 1..n |-> channel[Len(channel) - n + i]]

\* an event one of whose bodies lacks a pose, a Mass or a RigidBody
Unresolvable(ev) ==
    \E b \in {ev.bodies[1], ev.bodies[2]} :
        \/ masses[b] = None \/ bodies[b] = None
        \/ (next_poses[b] = None /\ poses[b] = None)

ResolveStep == pc \in {"idle", "done"} /\ pc' = "resolved" /\ readerOk

\* C15 as stated: after resolution every body of a drained event has a
\* next-frame velocity slot and a next-frame pose slot
C15_Original ==
    (pc = "resolved" /\ diagnostics = 0) =>
        \A i \in 1..Len(drained) : \A b \in {drained[i].bodies[1], drained[i].bodies[2]} :
            next_velocities[b] # None /\ next_poses[b] # None

\* C15 amended: resolution creates and removes no next-frame slot and changes
\* only slots of bodies of drained events; when one event was drained, each
\* next-frame slot its bodies have holds the value of the change set computed
\* from the values before resolution
C15_Amended ==
    [][ ResolveStep =>
          /\ \A e \in Entity :
                /\ (next_velocities'[e] = None) = (next_velocities[e] = None)
                /\ (next_poses'[e] = None) = (next_poses[e] = None)
                /\ (e \notin DrainedBodies') =>
                      next_velocities'[e] = next_velocities[e] /\ next_poses'[e] = next_poses[e]
          /\ Len(drained') = 1 =>
                LET ev == drained'[1]
                    cs == LinearResolveContact(ev,
                              ResolveData(ev.bodies[1], next_velocities, next_poses, poses, masses, bodies),
                              ResolveData(ev.bodies[2], next_velocities, next_poses, poses, masses, bodies))
                IN \A k \in 1..2 :
                     /\ next_poses[ev.bodies[k]] # None => next_poses'[ev.bodies[k]] = cs[k].pose
                     /\ next_velocities[ev.bodies[k]] # None =>
                           next_velocities'[ev.bodies[k]] = cs[k].velocity ]_vars

\* an event was resolved for a body without a next-frame pose slot: the other
\* body's slot was rewritten and the missing slot is still missing
C15_Witness ==
    /\ pc = "resolved" /\ Len(drained) = 1 /\ resolved = drained
    /\ \E k \in 1..2 :
          /\ next_poses[drained[1].bodies[k]] = None
          /\ next_poses[drained[1].bodies[3 - k]] # leftNextP[drained[1].bodies[3 - k]]

\* a body of the event has no Mass or no RigidBody
LacksMassOrBody(ev) ==
    \E b \in {ev.bodies[1], ev.bodies[2]} : masses[b] = None \/ bodies[b] = None

\* C16: a run that drains an event with a body lacking a Mass or a RigidBody
\* aborts; the events applied are only events before the first such event,
\* so nothing was applied for it (nothing at all when it is the first event),
\* and an aborted run is never continued by promotion or integration.
C16_AbortOnMissingComponent ==
    [][ /\ ( /\ pc \in {"idle", "done"} /\ pc' \in {"resolved", "aborted"} /\ readerOk
             /\ \E i \in 1..Len(drained') : LacksMassOrBody(drained'[i]) ) =>
              /\ pc' = "aborted"
              /\ \A i \in 1..Len(drained') :
                    LacksMassOrBody(drained'[i]) => Len(resolved') < i
              /\ resolved' = SubSeq(drained', 1, Len(resolved'))
              /\ LacksMassOrBody(drained'[1]) =>
                    next_velocities' = next_velocities /\ next_poses' = next_poses
        /\ pc = "aborted" => pc' = "aborted" ]_vars

\* a run aborted at an event whose body has poses but no Mass or no RigidBody
C16_Witness ==
    /\ pc = "aborted" /\ drained # <<>> /\ resolved = <<>>
    /\ LacksMassOrBody(drained[1])
    /\ \A b \in {drained[1].bodies[1], drained[1].bodies[2]} :
          poses[b] # None /\ next_poses[b] # None /\ next_velocities[b] # None
    /\ next_velocities = leftNextV /\ next_poses = leftNextP

\* C17: a run is contact resolution, then frame promotion, then force
\* integration followed by position integration, once each: promotion copies
\* the next-frame values contact resolution of this run produced, force
\* integration comes before position integration, and position integration
\* starts from the pose promoted in this run.
C17_Pipeline ==
    [][ /\ pc' = "resolved" => (pc \in {"idle", "done"} /\ tick' = tick + 1)
        /\ pc' = "promoted" => pc = "resolved"
        /\ pc' = "done" => pc = "promoted"
        /\ pc = "resolved" =>
              /\ pc' = "promoted" /\ tick' = tick
              /\ next_poses' = next_poses /\ next_velocities' = next_velocities
              /\ LET r == ResolveAll(drained, leftNextV, leftNextP, poses, masses, bodies)
                 IN \A e \in Entity :
                      /\ (poses[e] # None /\ next_poses[e] # None) => poses'[e] = r[2][e]
                      /\ (velocities[e] # None /\ next_velocities[e] # None) =>
                            velocities'[e] = r[1][e]
        /\ pc = "promoted" =>
              /\ pc' = "done" /\ tick' = tick
              /\ poses' = poses /\ velocities' = velocities
              /\ \A e \in Entity :
                    /\ InForceJoin(e) =>
                          next_velocities'[e][1].linear =
                              next_velocities[e][1].linear + forces[e][1] * masses[e][1] * time
                    /\ (next_velocities[e] # None /\ poses[e] # None /\ next_poses[e] # None) =>
                          next_poses'[e][1].position =
                              poses[e][1].position + next_velocities'[e][1].linear * time ]_vars

\* a completed run whose contact resolution changed a body's next-frame
\* pose and velocity, which promotion then copied
C17_Witness ==
    /\ pc = "done" /\ drained # <<>> /\ resolved = drained
    /\ \E e \in DrainedBodies :
          /\ poses[e] # None /\ leftNextP[e] # None /\ poses[e] # leftNextP[e]
          /\ velocities[e] # None /\ leftNextV[e] # None /\ velocities[e] # leftNextV[e]
          /\ next_poses[e] # poses[e]

\* C18: for each body of each event resolved, linear_resolve_contact is given
\* the next-frame pose if the body has one and the current pose otherwise,
\* and the next-frame velocity if the body has one and no velocity otherwise,
\* whatever the current Velocity is; for the first event these are the values
\* the previous run left.  A run whose bodies all have Mass and RigidBody
\* aborts only at a body with neither pose.
C18_EffectiveInputs ==
    (pc \in {"resolved", "aborted"} /\ diagnostics = 0) =>
        /\ Len(resolveArgs) = Len(resolved)
        /\ \A i \in 1..Len(resolveArgs) : \A k \in 1..2 :
              LET b == resolved[i].bodies[k]
                  arg == resolveArgs[i][k]
              IN /\ leftNextP[b] = None => arg.pose = poses[b][1]
                 /\ (leftNextP[b] # None /\ i = 1) => arg.pose = leftNextP[b][1]
                 /\ (leftNextV[b] = None) = (arg.velocity = None)
                 /\ i = 1 => arg.velocity = leftNextV[b]
        /\ (pc = "aborted" /\ \A i \in 1..Len(drained) : ~LacksMassOrBody(drained[i])) =>
              \E b \in {drained[Len(resolved) + 1].bodies[1], drained[Len(resolved) + 1].bodies[2]} :
                  leftNextP[b] = None /\ poses[b] = None

\* an event was resolved with the current pose of a body that has no
\* next-frame pose and with the next-frame pose and velocity of the other
\* body, which differ from its current ones
C18_Witness ==
    /\ pc = "resolved" /\ resolveArgs # <<>>
    /\ \E k \in 1..2 :
          LET b == resolved[1].bodies[k]
              o == resolved[1].bodies[3 - k]
          IN /\ leftNextP[b] = None /\ resolveArgs[1][k].pose = poses[b][1]
             /\ leftNextP[o] # None /\ poses[o] # None /\ leftNextP[o] # poses[o]
             /\ resolveArgs[1][3 - k].pose = leftNextP[o][1]
             /\ velocities[o] # None /\ velocities[o] # leftNextV[o]
             /\ resolveArgs[1][3 - k].velocity = leftNextV[o]

\* C19: without overflow each solver instance has resolved exactly the events
\* appended up to its own reader position, once each and in append order; a
\* drain returns the events appended since the same instance's previous
\* drain and moves its reader to the end of the channel, and leaves the other
\* instance's reader and record where they were.
C19_IndependentReaders ==
    /\ [](resolvedLog = SubSeq(channel, 1, contact_reader))
    /\ [](otherLog = SubSeq(channel, 1, other_reader))
    /\ [][ /\ (pc \in {"idle", "done"} /\ pc' = "resolved") =>
                /\ drained' = SubSeq(channel, contact_reader + 1, Len(channel))
                /\ contact_reader' = Len(channel)
                /\ other_reader' = other_reader /\ otherLog' = otherLog
           /\ otherTick' # otherTick =>
                /\ otherLog' = otherLog \o SubSeq(channel, other_reader + 1, Len(channel))
                /\ other_reader' = Len(channel)
                /\ contact_reader' = contact_reader /\ resolvedLog' = resolvedLog
           /\ channel' # channel =>
                /\ contact_reader' = contact_reader /\ other_reader' = other_reader ]_vars

\* two different events were appended; the first instance read them in two
\* drains, the second instance has read only the first
C19_Witness ==
    /\ Len(channel) = 2 /\ channel[1] # channel[2]
    /\ tick = 2 /\ resolvedLog = channel /\ Len(drained) = 1
    /\ other_reader = 1 /\ otherLog = <<channel[1]>>

\* the entity has a Pose and a CollisionShape and its pose is dirty
Initiates(e) == e \in dirty /\ e \in poseStore /\ e \in shapeStore

\* C20: in default mode every candidate pair has an entity with a dirty pose,
\* a Pose and a CollisionShape, so a pair of two entities that initiate no
\* query is never a candidate; an entity that initiates no query is paired
\* with every initiating entity whose query returns it; and with no dirty
\* entity the contact buffer is empty after the run whatever the bounds.
C20_DirtyInitiates ==
    /\ (~broad /\ AfterBroad) =>
          /\ \A i \in 1..Len(potentials) :
                Initiates(potentials[i][1]) \/ Initiates(potentials[i][2])
          /\ \A A, B \in Entity :
                (A # B /\ Initiates(A) /\ ~Initiates(B) /\ Overlap(bound[B], bound[A]))
                => CanonicalPair(A, B) \in Range(potentials)
    /\ (~broad /\ pc \in {"done", "aborted"} /\ dirty = {}) =>
          potentials = <<>> /\ contacts = <<>>

\* a run in which a clean entity was paired with the dirty entity whose query
\* returned it, while two overlapping clean entities were not paired
C20_Witness ==
    /\ ~broad /\ pc = "done"
    /\ \E A, B, C \in Entity :
          /\ A # B /\ B # C /\ A # C
          /\ Initiates(A) /\ B \notin dirty /\ C \notin dirty
          /\ {B, C} \subseteq poseStore \cap shapeStore
          /\ Overlap(bound[B], bound[C])
          /\ CanonicalPair(A, B) \in Range(potentials)
          /\ CanonicalPair(B, C) \notin Range(potentials)

TypeOK ==
    /\ pc \in {"idle", "broad", "reindex", "narrow", "done", "aborted", "resolved", "promoted"}
    /\ reindexCount \in 0..1
    /\ capacity \in 1..(MaxEvents + 1) /\ readerOk \in BOOLEAN
    /\ diagnostics \in 0..1 /\ lost \in 0..MaxEvents
    /\ Len(resolved) <= Len(drained)
    /\ Len(resolveArgs) = Len(resolved)
    /\ other_reader \in 0..Len(channel) /\ contact_reader \in 0..Len(channel)
    /\ otherTick \in 0..MaxTicks
====
